---- MODULE Spec2Model ----
(***************************************************************************)
(* A model of pm (src/pm.cc): the server controller thread (start_server), *)
(* the main thread's polling loop (watch_for_changes), the two signal      *)
(* handlers (sigchld_listener, sigint_term_listener), the shutdown         *)
(* initiator (print_error_and_initiate_shutdown) and write_to_file.        *)
(*                                                                         *)
(* A step is one access to state that another thread, a handler or the     *)
(* environment can see, together with the thread-local statements up to    *)
(* the next such access.  A signal handler runs on one of the two threads  *)
(* and suspends the code it interrupts until it returns.                   *)
(***************************************************************************)
EXTENDS Integers, Sequences, FiniteSets, TLC

\* ---------------------------------------------------------------- bounds
\* Number of server processes the controller may fork in one run.
MaxStarts == 2
\* Number of events from outside in one run: a SIGINT or SIGTERM from the user,
\* a stop or continue of the server process, a modification of the source file.
MaxEvents == 1
\* Seconds and nanoseconds of a modification time range over 0..MaxSec, 0..MaxNsec.
MaxSec == 1
MaxNsec == 1
\* Length of a document, and number of calls of write_to_file in one run.
MaxLen == 2
MaxWrites == 2
\* Length of the text to_html is given.
MaxInput == 5

\* ------------------------------------------------------ program constants
\* for (int t = 0; t < 50; ++t)
GracePolls == 50

Threads == {"main", "sup"}
Handlers == {"chld", "int"}
Ctx == Threads \cup Handlers
Pids == 1..MaxStarts
Timespec == [sec : 0..MaxSec, nsec : 0..MaxNsec]
\* A timespec that was never written: it holds any value, which shows when it
\* is first read.
\* The bytes of a document, and the documents to_html may produce.
Bytes == {"a", "b"}
Docs == UNION {[1..n -> Bytes] : n \in 0..MaxLen}
Uninitialised == [sec |-> -1, nsec |-> -1]

VARIABLES
    server_pid,          \* pid_t server_pid
    server_not_running,  \* bool server_not_running
    shutting_down,       \* bool shutting_down
    exit_status,         \* int exit_status
    mtx,                 \* std::mutex mtx: "free" or the context that locked it
    pc,                  \* position of each thread and handler
    stk,                 \* per thread, the handlers running on it, innermost first
    child,               \* each server process: "none", "alive", exited ("z127" with
                         \* status 127, "zother" otherwise), reaped ("r127", "rother")
    nextPid,             \* the pid the next fork() returns
    fret,                \* fork()'s return value, before it is stored in server_pid
    t,                   \* the loop counter of the shutdown sequence
    wret,                \* sigchld_listener: waitpid()'s return value
    wstatus,             \* sigchld_listener: int status
    pendingChld,         \* a SIGCHLD is pending
    pendingInt,          \* a SIGINT or SIGTERM is pending
    events,              \* events from outside so far
    fileMtime,           \* the source file's modification time
    last_mtime,          \* watch_for_changes: timespec last_mtime
    mtime,               \* watch_for_changes: timespec mtime
    backdated,           \* the file's modification time has been moved backwards
    seen,                \* the time the last successful get_mtime has returned
    joinable,            \* server_controller_thread.joinable()
    final,               \* how the process ended, "running" until then
    content,             \* the bytes of the file at the artifact path
    str,                 \* write_to_file: const std::string &str
    bytes_written,       \* write_to_file: ssize_t bytes_written
    wpc,                 \* write_to_file: position, "idle" outside a call
    writes,              \* calls of write_to_file so far
    ms,                  \* to_html: std::string ms, the text man(1) has printed
    hs,                  \* to_html: what has been appended to hs after the header
    i,                   \* to_html: size_t i
    inbold,              \* to_html: bool inbold
    initalic,            \* to_html: bool initalic
    hpc                  \* to_html: position, "idle" outside a call

vars == <<server_pid, server_not_running, shutting_down, exit_status, mtx, pc, stk,
          child, nextPid, fret, t, wret, wstatus, pendingChld, pendingInt, events,
          fileMtime, last_mtime, mtime, backdated, seen,
          joinable, final,
          content, str, bytes_written, wpc, writes,
          ms, hs, i, inbold, initalic, hpc>>

flagVars == <<server_not_running, shutting_down, exit_status>>
procVars == <<child, nextPid, pendingChld>>
supLocals == <<fret, t>>
hdlLocals == <<wret, wstatus>>
envVars == <<pendingInt, events>>
watchVars == <<fileMtime, last_mtime, mtime, backdated, seen>>
fileVars == <<content, str, bytes_written, wpc, writes>>
htmlVars == <<ms, hs, i, inbold, initalic, hpc>>
coreVars == <<server_pid, flagVars, mtx, pc, stk, procVars, supLocals, hdlLocals,
              envVars, watchVars, joinable, final>>

\* ------------------------------------------------------------ scheduling
\* A thread runs when no handler runs on it; a handler runs when it is the
\* innermost one on its thread.  Nothing runs once the process has ended.
Run(c) ==
    /\ final = "running"
    /\ c \in Threads => stk[c] = <<>>
    /\ c \in Handlers => \E th \in Threads : stk[th] # <<>> /\ Head(stk[th]) = c

HostOf(h) == CHOOSE th \in Threads : \E k \in 1..Len(stk[th]) : stk[th][k] = h

\* ------------------------------------------------------------- the mutex
\* mtx.unlock() by a context that does not hold mtx is undefined: the build
\* either leaves the mutex alone or releases it from under its owner.
UnlockOutcomes(c) == IF mtx = c THEN {"free"} ELSE {mtx, "free"}

\* cv.notify_all(): the controller is the only waiter on cv.
NotifiedPc(p) == IF p["sup"] = "blocked" THEN [p EXCEPT !["sup"] = "relock"] ELSE p

\* ------------------------------------------------------ operator <
TimespecLess(lhs, rhs) ==
    IF lhs.sec = rhs.sec THEN lhs.nsec < rhs.nsec ELSE lhs.sec < rhs.sec

\* ------------------------------------------------------ waitpid(2), WNOHANG
Zombies == {"z127", "zother"}
WaitSet(pid) == IF pid = 0 THEN Pids ELSE {pid} \cap Pids
\* The possible results of waitpid(pid, &status, WNOHANG): a child that has
\* exited is reaped and its pid returned; 0 when a child exists and none has
\* exited; -1 (ECHILD) when there is no such child.  pid 0 means any child
\* of the process group.
WaitpidOutcomes(pid) ==
    LET z == {p \in WaitSet(pid) : child[p] \in Zombies}
        live == {p \in WaitSet(pid) : child[p] = "alive"}
    IN  IF z # {}
        THEN {[ret |-> p, st |-> child[p],
               ch |-> [child EXCEPT ![p] = IF @ = "z127" THEN "r127" ELSE "rother"]] : p \in z}
        ELSE IF live # {}
        THEN {[ret |-> 0, st |-> "keep", ch |-> child]}
        ELSE {[ret |-> -1, st |-> "keep", ch |-> child]}

\* ------------------------------------------------------------------ Init
\* The state when main has rendered once, installed the handlers and started
\* the controller thread.  mtime is a local of watch_for_changes that is not
\* initialised.
InitProgram ==
    /\ server_pid = 0
    /\ server_not_running = TRUE
    /\ shutting_down = FALSE
    /\ exit_status = 0
    /\ mtx = "free"
    /\ pc = [c \in Ctx |-> CASE c = "main" -> "w_top"
                             [] c = "sup" -> "pred"
                             [] OTHER -> "idle"]
    /\ stk = [th \in Threads |-> <<>>]
    /\ child = [p \in Pids |-> "none"]
    /\ nextPid = 1
    /\ fret = 0
    /\ t = 0
    /\ wret = 0
    /\ wstatus = "undef"
    /\ pendingChld = FALSE
    /\ pendingInt = FALSE
    /\ events = 0
    /\ fileMtime = [sec |-> 0, nsec |-> MaxNsec]
    /\ last_mtime = fileMtime
    /\ mtime = Uninitialised
    /\ backdated = FALSE
    /\ seen = fileMtime
    /\ joinable = TRUE
    /\ final = "running"
    /\ content = <<>>
    /\ str = <<>>
    /\ bytes_written = 0
    /\ wpc = "idle"
    /\ writes = 0

\* No call of to_html is under way.
Init ==
    /\ InitProgram
    /\ ms = <<>>
    /\ hs = <<>>
    /\ i = 0
    /\ inbold = FALSE
    /\ initalic = FALSE
    /\ hpc = "idle"

\* ------------------------------------------------------------ start_server
\* cv.wait(mtx, pred): while (!pred()) wait(mtx).  The predicate is evaluated
\* first, whether or not this thread holds mtx.
SupPred ==
    /\ Run("sup") /\ pc["sup"] = "pred"
    /\ pc' = [pc EXCEPT !["sup"] =
                 IF server_not_running \/ shutting_down THEN "chk_sd" ELSE "wait"]
    /\ UNCHANGED <<server_pid, flagVars, mtx, procVars, supLocals, hdlLocals,
                   envVars, watchVars, stk, joinable, final>>
    /\ UNCHANGED <<fileVars, htmlVars>>

\* wait(mtx): releases mtx and blocks, atomically with respect to notify_all.
SupWait ==
    /\ Run("sup") /\ pc["sup"] = "wait"
    /\ mtx' \in UnlockOutcomes("sup")
    /\ pc' = [pc EXCEPT !["sup"] = "blocked"]
    /\ UNCHANGED <<server_pid, flagVars, procVars, supLocals, hdlLocals,
                   envVars, watchVars, stk, joinable, final>>
    /\ UNCHANGED <<fileVars, htmlVars>>

\* wait(mtx), woken by notify_all, locks mtx again before it returns, and the
\* predicate is evaluated again.
SupRelock ==
    /\ Run("sup") /\ pc["sup"] = "relock"
    /\ mtx = "free"
    /\ mtx' = "sup"
    /\ pc' = [pc EXCEPT !["sup"] = "pred"]
    /\ UNCHANGED <<server_pid, flagVars, procVars, supLocals, hdlLocals,
                   envVars, watchVars, stk, joinable, final>>
    /\ UNCHANGED <<fileVars, htmlVars>>

\* if (shutting_down)
SupCheckShutdown ==
    /\ Run("sup") /\ pc["sup"] = "chk_sd"
    /\ pc' = [pc EXCEPT !["sup"] = IF shutting_down THEN "sd_unlock" ELSE "chk_nr"]
    /\ UNCHANGED <<server_pid, flagVars, mtx, procVars, supLocals, hdlLocals,
                   envVars, watchVars, stk, joinable, final>>
    /\ UNCHANGED <<fileVars, htmlVars>>

\* if (server_not_running)
SupCheckNotRunning ==
    /\ Run("sup") /\ pc["sup"] = "chk_nr"
    /\ pc' = [pc EXCEPT !["sup"] = IF server_not_running THEN "set_run" ELSE "pred"]
    /\ UNCHANGED <<server_pid, flagVars, mtx, procVars, supLocals, hdlLocals,
                   envVars, watchVars, stk, joinable, final>>
    /\ UNCHANGED <<fileVars, htmlVars>>

\* A start transition that would also clear shutting_down.
SupSetRunning_ClearsShutdown ==
    /\ Run("sup") /\ pc["sup"] = "set_run"
    /\ server_not_running' = FALSE
    /\ shutting_down' = FALSE
    /\ pc' = NotifiedPc([pc EXCEPT !["sup"] = "unlock"])
    /\ UNCHANGED <<server_pid, exit_status, mtx, procVars, supLocals,
                   hdlLocals, envVars, watchVars, stk, joinable, final>>
    /\ UNCHANGED <<fileVars, htmlVars>>

\* server_not_running = false; cv.notify_all();
SupSetRunning ==
    /\ Run("sup") /\ pc["sup"] = "set_run"
    /\ server_not_running' = FALSE
    /\ pc' = NotifiedPc([pc EXCEPT !["sup"] = "unlock"])
    /\ UNCHANGED <<server_pid, shutting_down, exit_status, mtx, procVars, supLocals,
                   hdlLocals, envVars, watchVars, stk, joinable, final>>
    /\ UNCHANGED <<fileVars, htmlVars>>

\* mtx.unlock();
SupUnlock ==
    /\ Run("sup") /\ pc["sup"] = "unlock"
    /\ mtx' \in UnlockOutcomes("sup")
    /\ pc' = [pc EXCEPT !["sup"] = "fork"]
    /\ UNCHANGED <<server_pid, flagVars, procVars, supLocals, hdlLocals,
                   envVars, watchVars, stk, joinable, final>>
    /\ UNCHANGED <<fileVars, htmlVars>>

\* fork(): the child exists from here on; its pid is not yet in server_pid.
SupFork ==
    /\ Run("sup") /\ pc["sup"] = "fork"
    /\ nextPid <= MaxStarts
    /\ child' = [child EXCEPT ![nextPid] = "alive"]
    /\ fret' = nextPid
    /\ nextPid' = nextPid + 1
    /\ pc' = [pc EXCEPT !["sup"] = "assign"]
    /\ UNCHANGED <<server_pid, flagVars, mtx, pendingChld, t, hdlLocals,
                   envVars, watchVars, stk, joinable, final>>
    /\ UNCHANGED <<fileVars, htmlVars>>

\* server_pid = (what fork() returned);
SupAssign ==
    /\ Run("sup") /\ pc["sup"] = "assign"
    /\ server_pid' = fret
    /\ pc' = [pc EXCEPT !["sup"] = "pred"]
    /\ UNCHANGED <<flagVars, mtx, procVars, supLocals, hdlLocals,
                   envVars, watchVars, stk, joinable, final>>
    /\ UNCHANGED <<fileVars, htmlVars>>

\* The shutdown sequence: mtx.unlock(); for (int t = 0; ...
SupShutdownUnlock ==
    /\ Run("sup") /\ pc["sup"] = "sd_unlock"
    /\ mtx' \in UnlockOutcomes("sup")
    /\ t' = 0
    /\ pc' = [pc EXCEPT !["sup"] = "poll"]
    /\ UNCHANGED <<server_pid, flagVars, procVars, fret, hdlLocals,
                   envVars, watchVars, stk, joinable, final>>
    /\ UNCHANGED <<fileVars, htmlVars>>

\* One iteration of the for loop: waitpid(server_pid, NULL, WNOHANG); return on
\* -1 with ECHILD, else nanosleep and ++t; the loop ends when t reaches 50.
SupPoll ==
    /\ Run("sup") /\ pc["sup"] = "poll"
    /\ t < GracePolls
    /\ \E w \in WaitpidOutcomes(server_pid) :
          /\ child' = w.ch
          /\ IF w.ret = -1
             THEN /\ pc' = [pc EXCEPT !["sup"] = "done"]
                  /\ t' = t
             ELSE /\ t' = t + 1
                  /\ pc' = [pc EXCEPT !["sup"] =
                               IF t + 1 < GracePolls THEN "poll" ELSE "kill"]
    /\ UNCHANGED <<server_pid, flagVars, mtx, nextPid, pendingChld, fret, hdlLocals,
                   envVars, watchVars, stk, joinable, final>>
    /\ UNCHANGED <<fileVars, htmlVars>>

\* kill(server_pid, SIGKILL); return;
SupKill ==
    /\ Run("sup") /\ pc["sup"] = "kill"
    /\ IF server_pid \in Pids /\ child[server_pid] = "alive"
       THEN /\ child' = [child EXCEPT ![server_pid] = "zother"]
            /\ pendingChld' = TRUE
       ELSE UNCHANGED <<child, pendingChld>>
    /\ pc' = [pc EXCEPT !["sup"] = "done"]
    /\ UNCHANGED <<server_pid, flagVars, mtx, nextPid, supLocals, hdlLocals,
                   envVars, watchVars, stk, joinable, final>>
    /\ UNCHANGED <<fileVars, htmlVars>>

start_server ==
    \/ SupPred \/ SupWait \/ SupRelock
    \/ SupCheckShutdown \/ SupCheckNotRunning \/ SupSetRunning \/ SupUnlock
    \/ SupFork \/ SupAssign \/ SupShutdownUnlock \/ SupPoll \/ SupKill

\* ------------------------------------------------------- signal delivery
\* The kernel runs the handler of a pending signal on a thread of the process
\* (signal(SIGCHLD, ...), signal(SIGINT, ...), signal(SIGTERM, ...) in main).
\* The controller thread can take it until start_server has returned.
Deliver(h, th) ==
    /\ final = "running"
    /\ pc[h] = "idle"
    /\ th = "sup" => pc["sup"] # "done"
    /\ IF h = "chld"
       THEN /\ pendingChld
            /\ pendingChld' = FALSE
            /\ pc' = [pc EXCEPT ![h] = "c_wait"]
            /\ UNCHANGED pendingInt
       ELSE /\ pendingInt
            /\ pendingInt' = FALSE
            /\ pc' = [pc EXCEPT ![h] = "i_lock"]
            /\ UNCHANGED pendingChld
    /\ stk' = [stk EXCEPT ![th] = <<h>> \o @]
    /\ UNCHANGED <<server_pid, flagVars, mtx, child, nextPid, supLocals, hdlLocals,
                   events, watchVars, joinable, final>>
    /\ UNCHANGED <<fileVars, htmlVars>>

DeliverSignal == \E h \in Handlers, th \in Threads : Deliver(h, th)

\* ------------------------------------- print_error_and_initiate_shutdown
\* Called by sigchld_listener (c = "chld") and by main's catch (c = "main").
\* mtx.lock();
PELock(c) ==
    /\ Run(c) /\ pc[c] = "p_lock"
    /\ mtx = "free"
    /\ mtx' = c
    /\ pc' = [pc EXCEPT ![c] = "p_set"]
    /\ UNCHANGED <<server_pid, flagVars, procVars, supLocals, hdlLocals,
                   envVars, watchVars, stk, joinable, final>>
    /\ UNCHANGED <<fileVars, htmlVars>>

\* shutting_down = true; exit_status = 1; cv.notify_all();
PEInitiate(c) ==
    /\ Run(c) /\ pc[c] = "p_set"
    /\ shutting_down' = TRUE
    /\ exit_status' = 1
    /\ pc' = NotifiedPc([pc EXCEPT ![c] = "p_unlock"])
    /\ UNCHANGED <<server_pid, server_not_running, mtx, procVars, supLocals, hdlLocals,
                   envVars, watchVars, stk, joinable, final>>
    /\ UNCHANGED <<fileVars, htmlVars>>

\* mtx.unlock(); then back to the caller: the handler returns, main goes on to
\* exit(exit_status).
PEUnlock(c) ==
    /\ Run(c) /\ pc[c] = "p_unlock"
    /\ mtx' \in UnlockOutcomes(c)
    /\ IF c = "main"
       THEN /\ pc' = [pc EXCEPT ![c] = "exit"]
            /\ UNCHANGED <<stk, hdlLocals>>
       ELSE /\ pc' = [pc EXCEPT ![c] = "idle"]
            /\ stk' = [stk EXCEPT ![HostOf(c)] = Tail(@)]
            /\ wret' = 0 /\ wstatus' = "undef"
    /\ UNCHANGED <<server_pid, flagVars, procVars, supLocals,
                   envVars, watchVars, joinable, final>>
    /\ UNCHANGED <<fileVars, htmlVars>>

print_error_and_initiate_shutdown ==
    \E c \in {"chld", "main"} : PELock(c) \/ PEInitiate(c) \/ PEUnlock(c)

\* -------------------------------------------------------- sigchld_listener
\* waitpid(server_pid, &status, WNOHANG): the first read of server_pid.
ChldWaitpid ==
    /\ Run("chld") /\ pc["chld"] = "c_wait"
    /\ \E w \in WaitpidOutcomes(server_pid) :
          /\ child' = w.ch
          /\ wret' = w.ret
          /\ wstatus' = IF w.st = "keep" THEN wstatus ELSE w.st
    /\ pc' = [pc EXCEPT !["chld"] = "c_cmp"]
    /\ UNCHANGED <<server_pid, flagVars, mtx, nextPid, pendingChld, supLocals,
                   envVars, watchVars, stk, joinable, final>>
    /\ UNCHANGED <<fileVars, htmlVars>>

\* ... == server_pid (the second read), then WIFEXITED(status) &&
\* WEXITSTATUS(status) == 127.  status is not initialised: when waitpid reaped
\* nothing it holds whatever the stack held.
ChldCompare ==
    /\ Run("chld") /\ pc["chld"] = "c_cmp"
    /\ IF wret = server_pid
       THEN \E st \in (IF wstatus = "undef" THEN Zombies ELSE {wstatus}) :
               /\ pc' = [pc EXCEPT !["chld"] = IF st = "z127" THEN "p_lock" ELSE "c_chk_sd"]
               /\ UNCHANGED <<stk, hdlLocals>>
       ELSE /\ pc' = [pc EXCEPT !["chld"] = "idle"]
            /\ stk' = [stk EXCEPT ![HostOf("chld")] = Tail(@)]
            /\ wret' = 0 /\ wstatus' = "undef"
    /\ UNCHANGED <<server_pid, flagVars, mtx, procVars, supLocals,
                   envVars, watchVars, joinable, final>>
    /\ UNCHANGED <<fileVars, htmlVars>>

\* if (!shutting_down)
ChldCheckShutdown ==
    /\ Run("chld") /\ pc["chld"] = "c_chk_sd"
    /\ IF ~shutting_down
       THEN /\ pc' = [pc EXCEPT !["chld"] = "c_lock"]
            /\ UNCHANGED <<stk, hdlLocals>>
       ELSE /\ pc' = [pc EXCEPT !["chld"] = "idle"]
            /\ stk' = [stk EXCEPT ![HostOf("chld")] = Tail(@)]
            /\ wret' = 0 /\ wstatus' = "undef"
    /\ UNCHANGED <<server_pid, flagVars, mtx, procVars, supLocals,
                   envVars, watchVars, joinable, final>>
    /\ UNCHANGED <<fileVars, htmlVars>>

\* mtx.lock();
ChldLock ==
    /\ Run("chld") /\ pc["chld"] = "c_lock"
    /\ mtx = "free"
    /\ mtx' = "chld"
    /\ pc' = [pc EXCEPT !["chld"] = "c_set"]
    /\ UNCHANGED <<server_pid, flagVars, procVars, supLocals, hdlLocals,
                   envVars, watchVars, stk, joinable, final>>
    /\ UNCHANGED <<fileVars, htmlVars>>

\* server_not_running = true;
ChldSetNotRunning ==
    /\ Run("chld") /\ pc["chld"] = "c_set"
    /\ server_not_running' = TRUE
    /\ pc' = [pc EXCEPT !["chld"] = "c_unlock"]
    /\ UNCHANGED <<server_pid, shutting_down, exit_status, mtx, procVars, supLocals,
                   hdlLocals, envVars, watchVars, stk, joinable, final>>
    /\ UNCHANGED <<fileVars, htmlVars>>

\* mtx.unlock(); cv.notify_all(); and the handler returns.
ChldUnlockNotify ==
    /\ Run("chld") /\ pc["chld"] = "c_unlock"
    /\ mtx' \in UnlockOutcomes("chld")
    /\ pc' = [NotifiedPc(pc) EXCEPT !["chld"] = "idle"]
    /\ stk' = [stk EXCEPT ![HostOf("chld")] = Tail(@)]
    /\ wret' = 0 /\ wstatus' = "undef"
    /\ UNCHANGED <<server_pid, flagVars, procVars, supLocals,
                   envVars, watchVars, joinable, final>>
    /\ UNCHANGED <<fileVars, htmlVars>>

sigchld_listener ==
    \/ ChldWaitpid \/ ChldCompare \/ ChldCheckShutdown
    \/ ChldLock \/ ChldSetNotRunning \/ ChldUnlockNotify

\* ---------------------------------------------------- sigint_term_listener
\* mtx.lock();
IntLock ==
    /\ Run("int") /\ pc["int"] = "i_lock"
    /\ mtx = "free"
    /\ mtx' = "int"
    /\ pc' = [pc EXCEPT !["int"] = "i_set"]
    /\ UNCHANGED <<server_pid, flagVars, procVars, supLocals, hdlLocals,
                   envVars, watchVars, stk, joinable, final>>
    /\ UNCHANGED <<fileVars, htmlVars>>

\* shutting_down = true;
IntSetShuttingDown ==
    /\ Run("int") /\ pc["int"] = "i_set"
    /\ shutting_down' = TRUE
    /\ pc' = [pc EXCEPT !["int"] = "i_unlock"]
    /\ UNCHANGED <<server_pid, server_not_running, exit_status, mtx, procVars,
                   supLocals, hdlLocals, envVars, watchVars, stk, joinable, final>>
    /\ UNCHANGED <<fileVars, htmlVars>>

\* mtx.unlock(); cv.notify_all(); and the handler returns.
IntUnlockNotify ==
    /\ Run("int") /\ pc["int"] = "i_unlock"
    /\ mtx' \in UnlockOutcomes("int")
    /\ pc' = [NotifiedPc(pc) EXCEPT !["int"] = "idle"]
    /\ stk' = [stk EXCEPT ![HostOf("int")] = Tail(@)]
    /\ UNCHANGED <<server_pid, flagVars, procVars, supLocals, hdlLocals,
                   envVars, watchVars, joinable, final>>
    /\ UNCHANGED <<fileVars, htmlVars>>

sigint_term_listener == IntLock \/ IntSetShuttingDown \/ IntUnlockNotify

\* ------------------------------------------------------- watch_for_changes
\* if (shutting_down) break;  and main goes on to join the controller thread.
WatchTop ==
    /\ Run("main") /\ pc["main"] = "w_top"
    /\ pc' = [pc EXCEPT !["main"] = IF shutting_down THEN "join" ELSE "w_stat"]
    /\ UNCHANGED <<server_pid, flagVars, mtx, procVars, supLocals, hdlLocals,
                   envVars, watchVars, stk, joinable, final>>
    /\ UNCHANGED <<fileVars, htmlVars>>

\* get_mtime(manfile, mtime) succeeds: mtime is the file's modification time.
\* Then if (last_mtime < mtime) the file is rendered again; otherwise nanosleep
\* and the next cycle.
WatchStatOk ==
    /\ Run("main") /\ pc["main"] = "w_stat"
    /\ mtime' = fileMtime
    /\ seen' = fileMtime
    /\ pc' = [pc EXCEPT !["main"] =
                 IF TimespecLess(last_mtime, mtime') THEN "w_render" ELSE "w_top"]
    /\ UNCHANGED <<server_pid, flagVars, mtx, procVars, supLocals, hdlLocals,
                   envVars, fileMtime, last_mtime, backdated, stk, joinable, final>>
    /\ UNCHANGED <<fileVars, htmlVars>>

\* get_mtime(manfile, mtime) fails (-1): mtime is left as it was, a warning is
\* printed and the thread sleeps two seconds.  Then the same comparison.
WatchStatFail ==
    /\ Run("main") /\ pc["main"] = "w_stat"
    /\ mtime' \in (IF mtime = Uninitialised THEN Timespec ELSE {mtime})
    /\ UNCHANGED seen
    /\ pc' = [pc EXCEPT !["main"] =
                 IF TimespecLess(last_mtime, mtime') THEN "w_render" ELSE "w_top"]
    /\ UNCHANGED <<server_pid, flagVars, mtx, procVars, supLocals, hdlLocals,
                   envVars, fileMtime, last_mtime, backdated, stk, joinable, final>>
    /\ UNCHANGED <<fileVars, htmlVars>>

\* write_to_file(to_html(run_man(manfile), manfile), tempfile): run_man and
\* write_to_file throw PMException on failure, which main catches.
WatchRender ==
    /\ Run("main") /\ pc["main"] = "w_render"
    /\ \E ok \in BOOLEAN :
          pc' = [pc EXCEPT !["main"] = IF ok THEN "w_kill" ELSE "p_lock"]
    /\ UNCHANGED <<server_pid, flagVars, mtx, procVars, supLocals, hdlLocals,
                   envVars, watchVars, stk, joinable, final>>
    /\ UNCHANGED <<fileVars, htmlVars>>

\* kill(server_pid, SIGUSR1); last_mtime = mtime; nanosleep and the next
\* cycle.  pid 0 addresses the whole process group, pm included, and pm
\* installs no handler for SIGUSR1.
WatchKill ==
    /\ Run("main") /\ pc["main"] = "w_kill"
    /\ final' = IF server_pid = 0 THEN "SIGUSR1" ELSE final
    /\ last_mtime' = mtime
    /\ pc' = [pc EXCEPT !["main"] = "w_top"]
    /\ UNCHANGED <<server_pid, flagVars, mtx, procVars, supLocals, hdlLocals,
                   envVars, fileMtime, mtime, backdated, seen, stk, joinable>>
    /\ UNCHANGED <<fileVars, htmlVars>>

watch_for_changes ==
    WatchTop \/ WatchStatOk \/ WatchStatFail \/ WatchRender \/ WatchKill

\* -------------------------------------------------------------------- main
\* server_controller_thread.join(): returns once start_server has returned.
MainJoin ==
    /\ Run("main") /\ pc["main"] = "join"
    /\ pc["sup"] = "done"
    /\ joinable' = FALSE
    /\ pc' = [pc EXCEPT !["main"] = "exit"]
    /\ UNCHANGED <<server_pid, flagVars, mtx, procVars, supLocals, hdlLocals,
                   envVars, watchVars, stk, final>>
    /\ UNCHANGED <<fileVars, htmlVars>>

\* exit(exit_status): the destructor of the global server_controller_thread
\* runs; a thread that is still joinable makes it call std::terminate().
MainExit ==
    /\ Run("main") /\ pc["main"] = "exit"
    /\ final' = IF joinable THEN "SIGABRT"
                ELSE IF exit_status = 0 THEN "exit0" ELSE "exit1"
    /\ pc' = [pc EXCEPT !["main"] = "exited"]
    /\ UNCHANGED <<server_pid, flagVars, mtx, procVars, supLocals, hdlLocals,
                   envVars, watchVars, stk, joinable>>
    /\ UNCHANGED <<fileVars, htmlVars>>

main == MainJoin \/ MainExit

\* ------------------------------------------------------------- environment
\* The server process exits: with status 127 (the exec of server.py failed)
\* or otherwise; the kernel raises SIGCHLD.
ChildExit ==
    /\ final = "running"
    /\ \E p \in Pids, st \in Zombies :
          /\ child[p] = "alive"
          /\ child' = [child EXCEPT ![p] = st]
    /\ pendingChld' = TRUE
    /\ UNCHANGED <<server_pid, flagVars, mtx, pc, nextPid, supLocals, hdlLocals,
                   envVars, watchVars, stk, joinable, final>>
    /\ UNCHANGED <<fileVars, htmlVars>>

\* The server process is stopped or continued: the handler is installed with
\* signal(), without SA_NOCLDSTOP, so this raises SIGCHLD as well.
ChildStop ==
    /\ final = "running"
    /\ \E p \in Pids : child[p] = "alive"
    /\ events < MaxEvents
    /\ events' = events + 1
    /\ pendingChld' = TRUE
    /\ UNCHANGED <<server_pid, flagVars, mtx, pc, child, nextPid, supLocals, hdlLocals,
                   pendingInt, watchVars, stk, joinable, final>>
    /\ UNCHANGED <<fileVars, htmlVars>>

\* The user sends SIGINT or SIGTERM.
RaiseInt ==
    /\ final = "running"
    /\ events < MaxEvents
    /\ events' = events + 1
    /\ pendingInt' = TRUE
    /\ UNCHANGED <<server_pid, flagVars, mtx, pc, procVars, supLocals, hdlLocals,
                   watchVars, stk, joinable, final>>
    /\ UNCHANGED <<fileVars, htmlVars>>

\* The source file is modified: its modification time changes.
Touch ==
    /\ final = "running"
    /\ events < MaxEvents
    /\ events' = events + 1
    /\ fileMtime' \in Timespec \ {fileMtime}
    /\ backdated' = (\/ backdated
                     \/ fileMtime'.sec < fileMtime.sec
                     \/ fileMtime'.sec = fileMtime.sec /\ fileMtime'.nsec < fileMtime.nsec)
    /\ UNCHANGED <<server_pid, flagVars, mtx, pc, procVars, supLocals, hdlLocals,
                   pendingInt, last_mtime, mtime, seen, stk, joinable, final>>
    /\ UNCHANGED <<fileVars, htmlVars>>

Next ==
    \/ start_server
    \/ sigchld_listener
    \/ sigint_term_listener
    \/ print_error_and_initiate_shutdown
    \/ watch_for_changes
    \/ main
    \/ DeliverSignal
    \/ ChildExit \/ ChildStop \/ RaiseInt \/ Touch

Spec == Init /\ [][Next]_vars

\* ----------------------------------------------------------- write_to_file
\* The program as far as the bytes of the artifact are concerned: main calls
\* write_to_file once at startup, on the empty file get_tempfile has created,
\* and watch_for_changes calls it on every change it detects.  Spec above keeps
\* of a call only whether it returns or throws.

\* The file after write(fd, ptr, size) at offset off: the bytes written replace
\* those at off+1..off+size, or extend the file; all others stay.
WriteAt(file, off, data) ==
    [k \in 1..(IF off + Len(data) > Len(file) THEN off + Len(data) ELSE Len(file)) |->
        IF k > off /\ k <= off + Len(data) THEN data[k - off] ELSE file[k]]

\* write_to_file(to_html(...), tempfile) is called with some document.
WriteCall ==
    /\ wpc \in {"idle", "closed"}
    /\ writes < MaxWrites
    /\ writes' = writes + 1
    /\ str' \in Docs
    /\ wpc' = "open"
    /\ UNCHANGED <<content, bytes_written, coreVars, htmlVars>>

\* int fd = open(filepath.c_str(), O_WRONLY); if (fd == -1) throw ...;
\* bytes_written = 0.  The flags leave the file's bytes as they are and put
\* the offset at 0.
WriteOpen ==
    /\ wpc = "open"
    /\ \/ /\ wpc' = "loop"
          /\ bytes_written' = 0
       \/ /\ wpc' = "threw"
          /\ UNCHANGED bytes_written
    /\ UNCHANGED <<content, str, writes, coreVars, htmlVars>>

\* while (bytes_written < length): size = write(fd, ptr, length - bytes_written);
\* if (size == -1) throw ...; bytes_written += size; ptr += size.  write may
\* take fewer bytes than it was given.
WriteChunk ==
    /\ wpc = "loop"
    /\ bytes_written < Len(str)
    /\ \/ \E size \in 1..(Len(str) - bytes_written) :
             /\ content' = WriteAt(content, bytes_written,
                                   SubSeq(str, bytes_written + 1, bytes_written + size))
             /\ bytes_written' = bytes_written + size
             /\ wpc' = "loop"
       \/ /\ wpc' = "threw"
          /\ UNCHANGED <<content, bytes_written>>
    /\ UNCHANGED <<str, writes, coreVars, htmlVars>>

\* close(fd); the call returns.
WriteClose ==
    /\ wpc = "loop"
    /\ ~(bytes_written < Len(str))
    /\ wpc' = "closed"
    /\ UNCHANGED <<content, str, bytes_written, writes, coreVars, htmlVars>>

write_to_file == WriteCall \/ WriteOpen \/ WriteChunk \/ WriteClose

NextFile == write_to_file

SpecFile == Init /\ [][NextFile]_vars

\* ----------------------------------------------------------------- to_html
\* The characters of the text: '\n', '\b', the two that are escaped, the
\* underscore and one other; NUL is std::string's terminator ms[n].
NL == "NL"
BS == "BS"
NUL == "NUL"
Chars == {"B", "_", "<", ">", NL, BS}
Inputs == UNION {[1..n -> Chars] : n \in 0..MaxInput}

\* ms[k], k counted from 0.  ms += "\0\0" appends the empty C string, so ms
\* has length n: ms[n] is the terminator and ms[n+1] is outside the string,
\* where the read gives oob, any character.
MsAt(k, oob) == IF k < Len(ms) THEN ms[k + 1] ELSE IF k = Len(ms) THEN NUL ELSE oob

\* A loop that would skip no newline.
SkipNewlines_None(k) == k

\* while (ms[i] == '\n') ++i;  from position k.
RECURSIVE SkipNewlines(_)
SkipNewlines(k) == IF k < Len(ms) /\ ms[k + 1] = NL THEN SkipNewlines(k + 1) ELSE k

\* if (ch == '<') "&lt;" else if (ch == '>') "&gt;" else ch
Escaped(ch) == IF ch = "<" THEN "&lt;" ELSE IF ch = ">" THEN "&gt;" ELSE ch

\* to_html is called with some text; hs holds the header, i = 0, no span open.
InitHtml ==
    /\ InitProgram
    /\ ms \in Inputs
    /\ hs = <<>>
    /\ i = 0
    /\ inbold = FALSE
    /\ initalic = FALSE
    /\ hpc = "loop"

\* One iteration of while (i < n) that takes the branch for a blank line:
\* close the open span, append two newlines, skip the newlines that follow.
HtmlBlankLines ==
    /\ hpc = "loop"
    /\ i < Len(ms)
    /\ MsAt(i, NUL) = NL /\ MsAt(i + 1, NUL) = NL
    /\ hs' = hs \o (IF inbold THEN <<"</b>">> ELSE <<>>)
                \o (IF initalic THEN <<"</u>">> ELSE <<>>)
                \o <<NL, NL>>
    /\ inbold' = FALSE
    /\ initalic' = FALSE
    /\ i' = SkipNewlines(i + 2)
    /\ UNCHANGED <<ms, hpc, coreVars, fileVars>>

\* One iteration of while (i < n) otherwise: decide bold and italic from the
\* two characters that follow, close and open spans, append the character.
HtmlChar ==
    /\ hpc = "loop"
    /\ i < Len(ms)
    /\ ~(MsAt(i, NUL) = NL /\ MsAt(i + 1, NUL) = NL)
    /\ \E oob \in Chars \cup {NUL} :
          LET ch == MsAt(i, oob)
              overstrike == MsAt(i + 1, oob) = BS
              bold0 == overstrike /\ ch = MsAt(i + 2, oob)
              italic0 == overstrike /\ ch = "_"
              bold == IF bold0 /\ italic0 THEN ~initalic ELSE bold0
              italic == IF bold0 /\ italic0 THEN initalic ELSE italic0
              i1 == IF bold THEN i + 2 ELSE i
              ch1 == IF italic THEN MsAt(i1 + 2, oob) ELSE ch
              i2 == IF italic THEN i1 + 2 ELSE i1
          IN  /\ hs' = hs \o (IF inbold /\ ~bold THEN <<"</b>">> ELSE <<>>)
                          \o (IF initalic /\ ~italic THEN <<"</u>">> ELSE <<>>)
                          \o (IF bold /\ ~inbold THEN <<"<b>">> ELSE <<>>)
                          \o (IF italic /\ ~initalic THEN <<"<u>">> ELSE <<>>)
                          \o <<Escaped(ch1)>>
              /\ inbold' = bold
              /\ initalic' = italic
              /\ i' = i2 + 1
    /\ UNCHANGED <<ms, hpc, coreVars, fileVars>>

\* The loop ends: the trailer is appended and hs is returned.
HtmlReturn ==
    /\ hpc = "loop"
    /\ ~(i < Len(ms))
    /\ hpc' = "done"
    /\ UNCHANGED <<ms, hs, i, inbold, initalic, coreVars, fileVars>>

to_html == HtmlBlankLines \/ HtmlChar \/ HtmlReturn

NextHtml == to_html

SpecHtml == InitHtml /\ [][NextHtml]_vars

\* ================================================================ claims
Live == {p \in Pids : child[p] = "alive"}
\* A server process has ended with the status of a failed launch.
Fatal == \E p \in Pids : child[p] \in {"z127", "r127"}
\* A server process has ended otherwise.
Crashed == \E p \in Pids : child[p] \in {"zother", "rother"}
\* Every SIGCHLD raised so far has been handled, and every SIGINT/SIGTERM.
ChldQuiet == pc["chld"] = "idle" /\ ~pendingChld
IntQuiet == pc["int"] = "idle" /\ ~pendingInt

\* a is later than b in the order of seconds, then nanoseconds.
LaterThan(a, b) ==
    a.sec * (MaxNsec + 1) + a.nsec > b.sec * (MaxNsec + 1) + b.nsec

\* C1: at no time are two server processes started by the controller alive
\* together.
C1_AtMostOneLive == Cardinality(Live) <= 1

\* C2: once shutting_down is true, no step forks a server process.
C2_NoStartAfterShutdown == [][shutting_down => Live' \subseteq Live]_vars

\* C3: once shutting_down is true the controller wakes from cv.wait; it is
\* never left asleep on cv with shutting_down set when every handler has
\* finished its notify_all and main waits in join.
C3_NoLostWakeup ==
    ~(/\ shutting_down
      /\ pc["sup"] = "blocked"
      /\ pc["main"] = "join"
      /\ ChldQuiet /\ IntQuiet)

\* C4: a server process that ended with status 127 puts the program into
\* shutdown with exit status 1: once every SIGCHLD has been handled,
\* shutting_down is set and exit_status is 1.
C4_FatalShutsDown ==
    (Fatal /\ ChldQuiet /\ final = "running") => (shutting_down /\ exit_status = 1)

\* C5: a crash of the server while shutting_down is false leads to a restart:
\* the controller is never left asleep on cv with no server process alive,
\* when every notification has been handled and no shutdown was asked for.
C5_CrashRestarts ==
    ~(/\ Crashed /\ ~Fatal /\ Live = {}
      /\ ~shutting_down
      /\ pc["sup"] = "blocked"
      /\ ChldQuiet /\ IntQuiet)

\* C6: the shutdown sequence goes on to the forced kill only when the last
\* poll of the grace window finds the server process alive; a process that
\* has exited within the grace window is not sent SIGKILL.
C6_KillOnlyIfAlive ==
    [][(pc["sup"] = "poll" /\ pc'["sup"] = "kill")
          => (server_pid \in Pids /\ child[server_pid] = "alive")]_vars

\* C7: every SIGUSR1 the watcher sends goes to a server process that is
\* running: the phase is Running, server_pid is set and that process is alive.
C7_NotifyRunningServer ==
    [][WatchKill => (/\ ~server_not_running
                     /\ server_pid \in Pids
                     /\ child[server_pid] = "alive")]_vars

\* C8: when write_to_file has returned, the file's content is exactly the
\* document it was given, whatever the file held before.
C8_ArtifactIsDocument == (wpc = "closed") => (content = str)

\* C9: a poll cycle goes on to render if and only if its stat succeeded and
\* the modification time it observed is later than the cursor, seconds first
\* and nanoseconds second; the cursor moves only to a later time.
C9_RenderIffLater ==
    [][/\ (pc["main"] = "w_stat" /\ pc'["main"] = "w_render")
            <=> (WatchStatOk /\ LaterThan(fileMtime, last_mtime))
       /\ last_mtime' # last_mtime => LaterThan(last_mtime', last_mtime)]_vars

\* C11: a modification that moves the file's time forward is rendered and
\* notified: while the file's time has only moved forward, a cycle whose stat
\* observes a time other than the last one observed goes on to the rewrite,
\* and the rewrite is followed by the notification that sets the cursor.
C11_ModificationRendered ==
    [][/\ (WatchStatOk /\ ~backdated /\ fileMtime # seen)
             => pc'["main"] = "w_render"
       /\ WatchKill => (last_mtime' = mtime /\ pc'["main"] = "w_top")]_vars

\* C12: a fatal error sets shutting_down and exit_status 1 through
\* print_error_and_initiate_shutdown, and the program exits only after
\* start_server has run its shutdown sequence: when main has left after a
\* fatal error, start_server has returned and no server process is alive.
C12_FatalRunsShutdownSequence ==
    (pc["main"] = "exited" /\ exit_status = 1)
        => (shutting_down /\ pc["sup"] = "done" /\ Live = {})

\* C13: exit_status, once 1, stays 1, and the program ends with it as its
\* exit status: status 1 after a fatal error, status 0 otherwise.
C13_ExitStatus ==
    [][/\ exit_status = 1 => exit_status' = 1
       /\ MainExit => final' = (IF exit_status = 1 THEN "exit1" ELSE "exit0")]_vars

\* C14: shutting_down is monotonic: no step takes it from true to false.
C14_ShuttingDownMonotonic == [][shutting_down => shutting_down']_vars
\* shutting_down has been set and the program has run to its end after it.
C14_Witness == shutting_down /\ pc["sup"] = "done" /\ pc["main"] = "exited"

\* C15: for a text of one overstrike triple the body is the character in a
\* pair of tags: <b>c</b> for c BS c, <u>x</u> for _ BS x.
C15_SingleTriple ==
    (hpc = "done" /\ Len(ms) = 3 /\ ms[2] = BS /\ ms[3] \notin {NL, BS})
        => /\ (ms[1] = ms[3] /\ ms[1] # "_")
                => hs = <<"<b>", Escaped(ms[3]), "</b>">>
           /\ (ms[1] = "_" /\ ms[3] # "_")
                => hs = <<"<u>", Escaped(ms[3]), "</u>">>

\* C16: _ BS _ with no italic span open is a bold underscore, <b>_</b>; right
\* after an open italic span it is an underscore inside that span, with no
\* </u> and no <b> before it.
C16_AmbiguousUnderscore ==
    hpc = "done"
        => /\ ms = <<"_", BS, "_">> => hs = <<"<b>", "_", "</b>">>
           /\ (Len(ms) >= 6 /\ SubSeq(ms, 1, 6) = <<"_", BS, "B", "_", BS, "_">>)
                => (Len(hs) >= 3 /\ SubSeq(hs, 1, 3) = <<"<u>", "B", "_">>)

\* The reference transform of a text without overstrikes: '<' and '>' become
\* entities, a newline that follows two newlines is dropped, all else stays.
PlainEntity(c) == CASE c = "<" -> "&lt;" [] c = ">" -> "&gt;" [] OTHER -> c
RECURSIVE PlainUpTo(_, _)
PlainUpTo(s, k) ==
    IF k = 0 THEN <<>>
    ELSE PlainUpTo(s, k - 1) \o
         (IF s[k] = NL /\ k > 2 /\ s[k - 1] = NL /\ s[k - 2] = NL
          THEN <<>> ELSE <<PlainEntity(s[k])>>)
NoOverstrike == \A k \in 1..Len(ms) : ms[k] # BS

\* C17: for a text with no backspace the body is the reference transform of
\* the text: entities for '<' and '>', every run of two or more newlines
\* reduced to two, nothing else changed and no tag.
C17_PlainText ==
    (hpc = "done" /\ NoOverstrike) => hs = PlainUpTo(ms, Len(ms))
\* A text with both escaped characters around a run of three newlines.
C17_Witness ==
    /\ hpc = "done"
    /\ ms = <<"<", NL, NL, NL, ">">>
    /\ hs = <<"&lt;", NL, NL, "&gt;">>

\* C18: every write to server_not_running, server_pid, shutting_down and
\* exit_status is made by a thread or handler that holds mtx.
C18_WritesUnderLock ==
    [][/\ SupSetRunning => mtx = "sup"
       /\ SupAssign => mtx = "sup"
       /\ ChldSetNotRunning => mtx = "chld"
       /\ IntSetShuttingDown => mtx = "int"
       /\ \A c \in {"chld", "main"} : PEInitiate(c) => mtx = c]_vars

\* C19: whenever server_not_running is false, a handler or the watcher that
\* reads server_pid finds the pid of the process the latest start has forked,
\* not 0 and not the pid of an earlier process.
C19_RunningHasPid ==
    [][((ChldWaitpid \/ ChldCompare \/ WatchKill) /\ ~server_not_running)
          => (server_pid \in Pids /\ server_pid = nextPid - 1)]_vars

\* A handler stands at its mtx.lock().
LockWaiting(h) == pc[h] \in {"i_lock", "c_lock", "p_lock"}
\* The main thread can take no further step: the handler running on it waits
\* for mtx, which a handler it has interrupted holds, and the controller
\* sleeps on cv, so that nothing releases mtx.
MainThreadBlocked ==
    /\ Len(stk["main"]) >= 2
    /\ LockWaiting(Head(stk["main"]))
    /\ mtx = stk["main"][2]
    /\ pc["sup"] = "blocked"

\* C20: once shutting_down is set the watcher reaches the top of its loop,
\* sees the flag and leaves the loop: it is never held for ever inside the
\* loop with shutting_down set.
C20_WatcherLeavesLoop ==
    ~(/\ shutting_down
      /\ pc["main"] \in {"w_top", "w_stat", "w_render", "w_kill"}
      /\ MainThreadBlocked)

\* The contexts a handler has interrupted on thread th: the handlers below it
\* on th's stack and the thread itself.
Interrupted(th) == {th} \cup {stk[th][k] : k \in 2..Len(stk[th])}

\* C21: no handler waits at its mtx.lock() for a mutex that is held by the
\* thread it runs on or by a handler it has interrupted there, which cannot
\* go on to unlock before the handler returns.
C21_NoSelfDeadlock ==
    \A th \in Threads :
        ~(/\ stk[th] # <<>>
          /\ LockWaiting(Head(stk[th]))
          /\ mtx \in Interrupted(th))

\* The span that is open after the first k tokens of body s: "none", "b" or
\* "u"; "bad" once a tag opens inside an open span or closes a span that is
\* not the open one.
RECURSIVE SpanAfter(_, _)
SpanAfter(s, k) ==
    IF k = 0 THEN "none"
    ELSE LET before == SpanAfter(s, k - 1)
             tok == s[k]
         IN  CASE before = "bad" -> "bad"
               [] tok = "<b>" -> IF before = "none" THEN "b" ELSE "bad"
               [] tok = "<u>" -> IF before = "none" THEN "u" ELSE "bad"
               [] tok = "</b>" -> IF before = "b" THEN "none" ELSE "bad"
               [] tok = "</u>" -> IF before = "u" THEN "none" ELSE "bad"
               [] OTHER -> before

\* C22: the body's span tags are well formed: the bold and the italic span
\* are never open together, and when to_html returns every <b> and <u> has
\* been closed by its </b> or </u>.
C22_SpansWellFormed ==
    /\ ~(inbold /\ initalic)
    /\ SpanAfter(hs, Len(hs)) # "bad"
    /\ hpc = "done" => SpanAfter(hs, Len(hs)) = "none"

\* C23: when the file has stopped changing, its time having only moved
\* forward, with every render succeeding and no shutdown asked for, the
\* cursor comes to equal the file's time and the artifact its rendering.  The
\* cursor only ever moves to a later time, so it must never be later than
\* the file's time: from such a state it cannot come to equal it.
C23_CursorReachesFile ==
    (~backdated /\ ~shutting_down /\ final = "running")
        => ~LaterThan(last_mtime, fileMtime)

\* In a cycle whose stat succeeds the code's comparison agrees with that
\* order: it renders exactly when the observed time is later than the cursor.
StatOkRenderIffLater ==
    [][WatchStatOk => ((pc'["main"] = "w_render") <=> LaterThan(fileMtime, last_mtime))]_vars

\* C10: a cycle whose stat fails does nothing: it does not render and it
\* leaves the cursor as it is.
C10_FailedStatNoEffect ==
    [][WatchStatFail => (pc'["main"] = "w_top" /\ last_mtime' = last_mtime)]_vars

====
